---- MODULE Spec2Model ----
(***************************************************************************)
(* Dietary Score Calculator (ajallen05/ameya_web): the category            *)
(* normaliser, the multi-index scoring engine, the explanation generator   *)
(* and the Streamlit page (one action per kind of page rerun) of           *)
(* src/app_2.py, and the scoring and the page of its earlier variant       *)
(* src/app.py.                                                             *)
(*                                                                         *)
(* Python strings are TLA+ strings read character by character with        *)
(* SubSeq(s, i, i); Python dicts, which keep insertion order, are          *)
(* sequences of records.                                                   *)
(***************************************************************************)
EXTENDS Integers, Sequences, FiniteSets, TLC

VARIABLES
    dietary_indices,        \* module global: the index catalog (a mutable dict)
    reverse_scored_components, \* module global: a set of component labels
    component_explanations, \* module global: dict label -> text
    negative_explanations,  \* module global: dict label -> text
    foods,                  \* data['foods'], loaded once by load_data()
    selected_food,          \* st.session_state.selected_food
    food_data,              \* st.session_state.food_data
    user_input,             \* value of the "Enter food name:" text input
    checked,                \* names whose checkbox widget "opt_<name>" is ticked
    message,                \* banner shown by the search of this rerun
    best_match,             \* what process.extractOne returned to this rerun
    selected_optionals,     \* main's list of ticked names, argument of the scoring call
    scores,                 \* value returned by calculate_dietary_scores in this rerun
    scores_with_percentage, \* the sorted list displayed by this rerun
    results_data,           \* the rows of the results table of this rerun
    food_summary,           \* what lines 576-605 wrote as the summary of components
    doctor_explanation,     \* what the loop of lines 564-569 passed to st.markdown
    exception,              \* the exception that ended this rerun, if any
    norm_in,                \* argument of normalize_category
    norm_out,               \* normalize_category(norm_in)
    norm_again              \* normalize_category(norm_out)

tables == <<dietary_indices, reverse_scored_components, component_explanations,
            negative_explanations>>

vars == <<tables, foods, selected_food, food_data, user_input, checked,
          message, best_match, selected_optionals, scores, scores_with_percentage,
          results_data, food_summary, doctor_explanation, exception,
          norm_in, norm_out, norm_again>>

\* A Python name that may hold None holds None or Some(v)
None == << >>
Some(v) == <<v>>
Val(x) == x[1]

-----------------------------------------------------------------------------
(* str.lower() and str.strip(), on the characters this model's strings use *)

UpperCase == "ABCDEFGHIJKLMNOPQRSTUVWXYZ"
LowerCase == "abcdefghijklmnopqrstuvwxyz"

Char(s, i) == SubSeq(s, i, i)

\* the white space str.strip() removes (space, tab, newline, carriage return)
Whitespace == {" ", "\t", "\n", "\r"}

\* the lower-case letter of each upper-case letter, and the reverse
to_lower == [c \in {Char(UpperCase, i) : i \in 1..Len(UpperCase)} |->
                Char(LowerCase, CHOOSE i \in 1..Len(UpperCase) : Char(UpperCase, i) = c)]

to_upper == [c \in {Char(LowerCase, i) : i \in 1..Len(LowerCase)} |->
                Char(UpperCase, CHOOSE i \in 1..Len(LowerCase) : Char(LowerCase, i) = c)]

char_lower(c) == IF c \in DOMAIN to_lower THEN to_lower[c] ELSE c

char_upper(c) == IF c \in DOMAIN to_upper THEN to_upper[c] ELSE c

\* str.lower(): every character lowered, the string split in halves
RECURSIVE lower(_)
lower(s) ==
    IF Len(s) = 0 THEN ""
    ELSE IF Len(s) = 1 THEN char_lower(s)
    ELSE LET half == Len(s) \div 2
         IN  lower(SubSeq(s, 1, half)) \o lower(SubSeq(s, half + 1, Len(s)))

RECURSIVE upper(_)
upper(s) ==
    IF Len(s) = 0 THEN ""
    ELSE IF Len(s) = 1 THEN char_upper(s)
    ELSE LET half == Len(s) \div 2
         IN  upper(SubSeq(s, 1, half)) \o upper(SubSeq(s, half + 1, Len(s)))

\* str.strip(): from the first to the last character that is not white space
strip(s) ==
    LET kept == {i \in 1..Len(s) : Char(s, i) \notin Whitespace}
    IN  IF kept = {} THEN ""
        ELSE SubSeq(s, CHOOSE i \in kept : \A j \in kept : i <= j,
                       CHOOSE i \in kept : \A j \in kept : i >= j)

-----------------------------------------------------------------------------
(* normalize_category                                                      *)

category_mappings_chained ==
    ("vegetables" :> "leafy vegetables") @@
    ("leafy vegetables" :> "green leafy vegetables") @@
    ("beans" :> "legumes") @@
    ("legumes" :> "beans & legumes") @@
    ("processed meat" :> "red & processed meat") @@
    ("red meat" :> "red & processed meat") @@
    ("fried foods" :> "fast and fried foods") @@
    ("desserts" :> "sweets") @@
    ("sweets" :> "sweets and desserts") @@
    ("margarine" :> "butter") @@
    ("butter" :> "butter & stick margarine") @@
    ("cheese" :> "regular cheese") @@
    ("refined grain" :> "refined grains") @@
    ("whole grain" :> "whole grains") @@
    ("fruit juice" :> "fruit juices") @@
    ("sweetened beverages" :> "sugar sweetened beverages") @@
    ("poultry" :> "poultry (not fried, skinless)")

\* "dairy" taken as an alias of "low-fat dairy"
category_mappings_dairy_alias ==
    ("dairy" :> "low-fat dairy") @@
    ("vegetables" :> "other vegetables") @@
    ("leafy vegetables" :> "green leafy vegetables") @@
    ("beans" :> "beans & legumes") @@
    ("legumes" :> "beans & legumes") @@
    ("processed meat" :> "red & processed meat") @@
    ("red meat" :> "red & processed meat") @@
    ("fried foods" :> "fast and fried foods") @@
    ("desserts" :> "sweets and desserts") @@
    ("sweets" :> "sweets and desserts") @@
    ("margarine" :> "butter & stick margarine") @@
    ("butter" :> "butter & stick margarine") @@
    ("cheese" :> "regular cheese") @@
    ("refined grain" :> "refined grains") @@
    ("whole grain" :> "whole grains") @@
    ("fruit juice" :> "fruit juices") @@
    ("sweetened beverages" :> "sugar sweetened beverages") @@
    ("poultry" :> "poultry (not fried, skinless)")

category_mappings ==
    ("vegetables" :> "other vegetables") @@
    ("leafy vegetables" :> "green leafy vegetables") @@
    ("beans" :> "beans & legumes") @@
    ("legumes" :> "beans & legumes") @@
    ("processed meat" :> "red & processed meat") @@
    ("red meat" :> "red & processed meat") @@
    ("fried foods" :> "fast and fried foods") @@
    ("desserts" :> "sweets and desserts") @@
    ("sweets" :> "sweets and desserts") @@
    ("margarine" :> "butter & stick margarine") @@
    ("butter" :> "butter & stick margarine") @@
    ("cheese" :> "regular cheese") @@
    ("refined grain" :> "refined grains") @@
    ("whole grain" :> "whole grains") @@
    ("fruit juice" :> "fruit juices") @@
    ("sweetened beverages" :> "sugar sweetened beverages") @@
    ("poultry" :> "poultry (not fried, skinless)")

\* dict.get(key, default)
dict_get(d, key, default) == IF key \in DOMAIN d THEN d[key] ELSE default

normalize_category_case_sensitive(category) ==
    LET c == strip(category)
    IN  dict_get(category_mappings, c, c)

normalize_category(category) ==
    LET c == strip(lower(category))
    IN  dict_get(category_mappings, c, c)

-----------------------------------------------------------------------------
(* The index catalog: the dict literal of app_2.py, in its insertion order *)

item(component, points) == [component |-> component, points |-> points]

AHEI_2010_components ==
    << item("other vegetables", 1),
       item("Fruit", 1),
       item("Whole Grains", 1),
       item("sugar sweetened beverages", 1),
       item("nuts", 1),
       item("fish", 1),
       item("red & processed meat", 1),
       item("poultry (not fried, skinless)", 1),
       item("dairy", 1),
       item("alcohol", 1),
       item("vegetable oils", 1),
       item("trans fat", 1),
       item("n-3 fats", 1),
       item("PUFA", 1) >>

aMED_components ==
    << item("other vegetables", 1),
       item("Fruit", 1),
       item("Whole Grains", 1),
       item("legumes", 1),
       item("nuts", 1),
       item("fish", 1),
       item("red & processed meat", 1),
       item("olive oil", 1),
       item("alcohol", 1),
       item("ratio of monounsaturated to saturated fat", 1) >>

MIND_components ==
    << item("green leafy vegetables", 1),
       item("other vegetables", 1),
       item("Fruit", 1),
       item("Berries", 1),
       item("Whole Grains", 1),
       item("nuts", 1),
       item("beans & legumes", 1),
       item("fish", 1),
       item("poultry (not fried, skinless)", 1),
       item("olive oil", 1),
       item("red & processed meat", 1),
       item("fast and fried foods", 1),
       item("pastries and sweets", 1),
       item("butter & stick margarine", 1),
       item("regular cheese", 1) >>

DASH_components ==
    << item("other vegetables", 1),
       item("Fruit", 1),
       item("Whole Grains", 1),
       item("nuts", 1),
       item("legumes", 1),
       item("low-fat dairy", 1),
       item("red & processed meat", 1),
       item("sweets and desserts", 1),
       item("Sodium", 1) >>

PDI_components ==
    << item("other vegetables", 1),
       item("Vegetables", 1),
       item("Fruit", 1),
       item("Berries", 1),
       item("Whole Grains", 1),
       item("Refined grains", 1),
       item("sugar sweetened beverages", 1),
       item("fruit juices", 1),
       item("nuts", 1),
       item("legumes", 1),
       item("fish", 1),
       item("dairy", 1),
       item("egg", 1),
       item("red & processed meat", 1),
       item("poultry (not fried, skinless)", 1),
       item("fast and fried foods", 1),
       item("sweets and desserts", 1),
       item("animal fat", 1) >>

DII_components ==
    << item("Garlic (g)", 1),
       item("Pepper (g)", 1),
       item("Thyme/oregano (mg)", 1),
       item("Rosemary (mg)", 1),
       item("Green/black tea (g)", 1),
       item("Ginger (g)", 1),
       item("Onion (g)", 1),
       item("Saffron (g)", 1),
       item("Turmeric (mg)", 1),
       item("Sodium", 1),
       item("trans fat", 1),
       item("n-3 fats", 1),
       item("PUFA", 1),
       item("Total fat (g)", 1),
       item("Cholesterol (mg)", 1),
       item("MUFA (g)", 1),
       item("n-6 Fatty acids (g)", 1),
       item("Saturated fat (g)", 1),
       item("Fibre (g)", 1),
       item("Energy (kcal)", 1),
       item("Protein (g)", 1),
       item("Carbohydrate (g)", 1),
       item("Caffeine (g)", 1),
       item("β-Carotene (μg)", 1),
       item("Eugenol (mg)", 1),
       item("Folic acid (μg)", 1),
       item("Fe (mg)", 1),
       item("Mg (mg)", 1),
       item("Niacin (mg)", 1),
       item("Riboflavin (mg)", 1),
       item("Se (μg)", 1),
       item("Thiamin (mg)", 1),
       item("Zn (mg)", 1),
       item("Vitamin B12 (μg)", 1),
       item("Vitamin B6 (mg)", 1),
       item("Vitamin A (RE)", 1),
       item("Vitamin C (mg)", 1),
       item("Vitamin D (μg)", 1),
       item("Vitamin E (mg)", 1),
       item("Anthocyanidins (mg)", 1),
       item("Flavan-3-ol (mg)", 1),
       item("Flavones (mg)", 1),
       item("Flavonols (mg)", 1),
       item("Flavonones (mg)", 1),
       item("Isoflavones (mg)", 1) >>

dietary_indices_literal ==
    << [index |-> "AHEI-2010", components |-> AHEI_2010_components,
        max_score |-> 11,
        description |-> "Alternative Healthy Eating Index - focuses on foods and nutrients that reduce chronic disease risk"],
       [index |-> "aMED", components |-> aMED_components,
        max_score |-> 9,
        description |-> "Alternative Mediterranean Diet - emphasizes traditional Mediterranean eating patterns"],
       [index |-> "MIND", components |-> MIND_components,
        max_score |-> 15,
        description |-> "Mediterranean-DASH Intervention for Neurodegenerative Delay - designed to promote brain health"],
       [index |-> "DASH", components |-> DASH_components,
        max_score |-> 8,
        description |-> "Dietary Approaches to Stop Hypertension - designed to help lower blood pressure"],
       [index |-> "PDI", components |-> PDI_components,
        max_score |-> 18,
        description |-> "Plant-based Diet Index - emphasizes plant foods while limiting animal products"],
       [index |-> "DII", components |-> DII_components,
        max_score |-> 45,
        description |-> "Dietary Inflammatory Index - measures the inflammatory potential of your diet"] >>

-----------------------------------------------------------------------------
(* The other module-level tables: lines 179-183, 186-234 and 237-252       *)

reverse_scored_components_literal ==
    {"sugar sweetened beverages",
     "red & processed meat",
     "trans fat",
     "fast and fried foods",
     "pastries and sweets",
     "butter & stick margarine",
     "regular cheese",
     "sweets and desserts",
     "Sodium",
     "Refined grains",
     "fruit juices",
     "dairy",
     "egg",
     "animal fat"}

component_explanations_literal ==
    ("other vegetables" :> "vegetables provide essential vitamins, minerals, and fiber") @@
    ("Fruit" :> "fruits are rich in antioxidants, vitamins, and natural fiber") @@
    ("Whole Grains" :> "whole grains provide sustained energy and important nutrients") @@
    ("nuts" :> "nuts contain healthy fats, protein, and various micronutrients") @@
    ("fish" :> "fish provides omega-3 fatty acids that support heart and brain health") @@
    ("green leafy vegetables" :> "leafy greens are packed with folate, iron, and antioxidants") @@
    ("Berries" :> "berries are high in antioxidants and may support brain health") @@
    ("beans & legumes" :> "legumes provide plant protein, fiber, and important minerals") @@
    ("poultry (not fried, skinless)" :> "lean poultry provides high-quality protein") @@
    ("olive oil" :> "olive oil contains healthy monounsaturated fats") @@
    ("low-fat dairy" :> "low-fat dairy provides calcium and protein with less saturated fat") @@
    ("legumes" :> "legumes offer plant protein, fiber, and various nutrients") @@
    ("vegetable oils" :> "certain vegetable oils provide healthy unsaturated fats") @@
    ("n-3 fats" :> "omega-3 fatty acids support heart and brain health") @@
    ("PUFA" :> "polyunsaturated fats can help reduce inflammation") @@
    ("alcohol" :> "moderate alcohol consumption may have some health benefits") @@
    ("ratio of monounsaturated to saturated fat" :> "higher ratio indicates healthier fat profile") @@
    ("Vegetables" :> "vegetables provide essential nutrients and protective compounds") @@
    ("Onion (g)" :> "onions contain anti-inflammatory compounds") @@
    ("Garlic (g)" :> "garlic has anti-inflammatory and antimicrobial properties") @@
    ("Pepper (g)" :> "peppers contain antioxidants and anti-inflammatory compounds") @@
    ("Thyme/oregano (mg)" :> "herbs like thyme and oregano have anti-inflammatory properties") @@
    ("Rosemary (mg)" :> "rosemary contains powerful antioxidants") @@
    ("Green/black tea (g)" :> "tea provides antioxidants and anti-inflammatory compounds") @@
    ("Ginger (g)" :> "ginger has strong anti-inflammatory effects") @@
    ("Saffron (g)" :> "saffron contains antioxidants and may support mood") @@
    ("Turmeric (mg)" :> "turmeric contains curcumin, a powerful anti-inflammatory compound") @@
    ("Fibre (g)" :> "fiber supports digestive health and may reduce inflammation") @@
    ("β-Carotene (μg)" :> "beta-carotene is an antioxidant that converts to vitamin A") @@
    ("Eugenol (mg)" :> "eugenol has anti-inflammatory and antioxidant properties") @@
    ("Folic acid (μg)" :> "folate supports cell division and may reduce inflammation") @@
    ("Mg (mg)" :> "magnesium supports many bodily functions and may reduce inflammation") @@
    ("Niacin (mg)" :> "niacin (vitamin B3) supports energy metabolism") @@
    ("Riboflavin (mg)" :> "riboflavin (vitamin B2) supports cellular energy production") @@
    ("Thiamin (mg)" :> "thiamin (vitamin B1) supports nervous system function") @@
    ("Vitamin B12 (μg)" :> "vitamin B12 supports nerve function and red blood cell formation") @@
    ("Vitamin B6 (mg)" :> "vitamin B6 supports brain function and immune system") @@
    ("Vitamin A (RE)" :> "vitamin A supports vision, immune function, and cell growth") @@
    ("Vitamin C (mg)" :> "vitamin C is a powerful antioxidant that supports immune function") @@
    ("Vitamin D (μg)" :> "vitamin D supports bone health and immune function") @@
    ("Vitamin E (mg)" :> "vitamin E is an antioxidant that protects cells from damage") @@
    ("Anthocyanidins (mg)" :> "anthocyanidins are antioxidants that give fruits their color") @@
    ("Flavan-3-ol (mg)" :> "flavan-3-ols are antioxidants found in tea, cocoa, and fruits") @@
    ("Flavones (mg)" :> "flavones are plant compounds with anti-inflammatory effects") @@
    ("Flavonols (mg)" :> "flavonols are antioxidants found in many fruits and vegetables") @@
    ("Flavonones (mg)" :> "flavonones are citrus compounds with anti-inflammatory properties") @@
    ("Isoflavones (mg)" :> "isoflavones are plant compounds with potential health benefits")

negative_explanations_literal ==
    ("sugar sweetened beverages" :> "sugary drinks can lead to weight gain and increased diabetes risk") @@
    ("red & processed meat" :> "high consumption may increase risk of heart disease and certain cancers") @@
    ("trans fat" :> "trans fats raise bad cholesterol and increase heart disease risk") @@
    ("fast and fried foods" :> "these foods are often high in unhealthy fats and calories") @@
    ("pastries and sweets" :> "high sugar content can lead to blood sugar spikes and weight gain") @@
    ("butter & stick margarine" :> "these fats are high in saturated fat which can raise cholesterol") @@
    ("regular cheese" :> "high-fat cheese can contribute to saturated fat intake") @@
    ("sweets and desserts" :> "high sugar content provides empty calories and can affect blood sugar") @@
    ("Sodium" :> "excess sodium can contribute to high blood pressure") @@
    ("Refined grains" :> "refined grains lack fiber and nutrients compared to whole grains") @@
    ("fruit juices" :> "fruit juices are high in sugar and lack the fiber of whole fruits") @@
    ("dairy" :> "in some diet indices, dairy is limited to emphasize plant-based foods") @@
    ("egg" :> "in plant-based indices, eggs are limited as they're animal products") @@
    ("animal fat" :> "animal fats are typically higher in saturated fat")

-----------------------------------------------------------------------------
(* The food catalog read from data.json. An ingredient keeps its name and  *)
(* its category; quantity_per_serving and calorific_value are only shown.  *)

ingredient(name, category) == [name |-> name, category |-> category]

food(name, primary_ingredients, optional_ingredients) ==
    [name |-> name,
     data |-> [primary_ingredients |-> primary_ingredients,
               optional_ingredients |-> optional_ingredients]]

sample_foods ==
    << food("Pizza",
            << ingredient("Tomato sauce", "other vegetables"),
               ingredient("Mozzarella", "dairy") >>,
            << ingredient("Pepperoni", "Processed Meat"),
               ingredient("Olives", "  VEGETABLES "),
               ingredient("Extra cheese", "Cheese") >>),
       food("Plain Water", << >>, << >>),
       food("Power Bowl",
            << ingredient("Kale", "vegetables"),
               ingredient("Apple", "Fruit"),
               ingredient("Brown rice", "whole grain"),
               ingredient("Walnuts", "Nuts"),
               ingredient("Salmon", "fish"),
               ingredient("Chicken breast", "Poultry"),
               ingredient("Yoghurt", "Dairy"),
               ingredient("Sunflower oil", "vegetable oils"),
               ingredient("Flaxseed", "n-3 fats"),
               ingredient("Sesame", "PUFA") >>,
            << ingredient("Bacon bits", "red meat"),
               ingredient("Soda", "sweetened beverages"),
               ingredient("Shortening", "trans fat"),
               ingredient("Red wine", "alcohol") >>),
       food("Energy Bar",
            << ingredient("Oats", "Whole Grain"),
               ingredient("Almonds", "nuts"),
               ingredient("Calories", "Energy (kcal)") >>,
            << ingredient("Sea salt", "Sodium"),
               ingredient("Honey", "sweets") >>),
       food("Lentil Soup",
            << ingredient("Lentils", "Legumes"),
               ingredient("Carrots", "other vegetables"),
               ingredient("Olive oil", "olive oil") >>,
            << ingredient("Sea salt", "sodium"),
               ingredient("Croutons", "Refined Grain"),
               ingredient("Butter", "butter") >>) >>

\* the catalogs data.json may hold: the sample, or no food at all
Catalogs == {sample_foods, << >>}

Range(s) == {s[i] : i \in DOMAIN s}

\* list(foods.keys())
food_names_of(fs) == [i \in DOMAIN fs |-> fs[i].name]

\* every name looked up as the first food of the catalog
foods_get_first(fs, name) == fs[1].data

\* foods[name]
foods_get(fs, name) == (CHOOSE f \in Range(fs) : f.name = name).data

optional_names(data) == {e.name : e \in Range(data.optional_ingredients)}

\* the place of dietary_indices[name] in the dict's order
index_position(catalog, name) == CHOOSE i \in DOMAIN catalog : catalog[i].index = name

-----------------------------------------------------------------------------
(* calculate_dietary_scores                                                *)

min(a, b) == IF a <= b THEN a ELSE b

\* the filter on the name dropped: any selection brings every optional in
collect_categories_unfiltered(data, selected) ==
    {normalize_category(info.category) : info \in Range(data.primary_ingredients)}
    \cup
    {normalize_category(info.category) :
        info \in {e \in Range(data.optional_ingredients) : Len(selected) > 0}}

\* lines 285-296: the set of normalised categories of the primary and the
\* selected optional ingredients (selected_optionals is a list, tested with "in")
collect_categories(data, selected) ==
    {normalize_category(info.category) : info \in Range(data.primary_ingredients)}
    \cup
    {normalize_category(info.category) :
        info \in {e \in Range(data.optional_ingredients) : e.name \in Range(selected)}}

\* the tally kept at module level: a call starts from what the last one left
initial_tally_kept ==
    IF scores = None THEN [score |-> 0, matched_components |-> << >>]
    ELSE [score |-> Val(scores)[Len(Val(scores))].score, matched_components |-> << >>]

\* lines 305-306: score = 0, matched_components = []
initial_tally == [score |-> 0, matched_components |-> << >>]

\* the energy branch as an "if" of its own instead of an "elif"
match_component_energy_twice(tally, entry, categories) ==
    LET component == entry.component
        points == entry.points
        component_normalized == normalize_category(component)
        counted(t) == [score |-> t.score + points,
                       matched_components |-> Append(t.matched_components, component)]
        first == IF component_normalized \in categories THEN counted(tally) ELSE tally
    IN  IF component = "Energy (kcal)" THEN counted(first) ELSE first

\* a reverse-scored component taking its points away, down to zero
match_component_reverse_subtracts(tally, entry, categories) ==
    LET component == entry.component
        points == entry.points
        component_normalized == normalize_category(component)
        less == IF tally.score >= points THEN tally.score - points ELSE 0
        counted == [score |-> IF component \in reverse_scored_components
                              THEN less ELSE tally.score + points,
                    matched_components |-> Append(tally.matched_components, component)]
    IN  IF component_normalized \in categories THEN counted
        ELSE IF component = "Energy (kcal)" THEN counted
        ELSE tally

\* the component's label compared as it is spelled, without normalising it
match_component_raw_label(tally, entry, categories) ==
    LET component == entry.component
        points == entry.points
        counted == [score |-> tally.score + points,
                    matched_components |-> Append(tally.matched_components, component)]
    IN  IF component \in categories THEN counted
        ELSE IF component = "Energy (kcal)" THEN counted
        ELSE tally

\* lines 309-318: one turn of the loop over an index's components
match_component(tally, entry, categories) ==
    LET component == entry.component
        points == entry.points
        component_normalized == normalize_category(component)
        counted == [score |-> tally.score + points,
                    matched_components |-> Append(tally.matched_components, component)]
    IN  IF component_normalized \in categories THEN counted
        ELSE IF component = "Energy (kcal)" THEN counted
        ELSE tally

\* lines 308-318: the turns lo..hi of the loop, one after the other, from
\* the tally reached before them (the range is split to keep the nesting flat)
RECURSIVE match_range(_, _, _, _, _)
match_range(tally, index_components, categories, lo, hi) ==
    IF lo > hi THEN tally
    ELSE IF lo = hi THEN match_component(tally, index_components[lo], categories)
    ELSE LET mid == (lo + hi) \div 2
             first == match_range(tally, index_components, categories, lo, mid)
         IN  \* the test has the first half computed before the second starts
             IF first = tally
             THEN match_range(tally, index_components, categories, mid + 1, hi)
             ELSE match_range(first, index_components, categories, mid + 1, hi)

\* lines 305-318: the loop over one index's components, in the dict's order
match_components(index_components, categories) ==
    match_range(initial_tally, index_components, categories, 1, Len(index_components))

\* line 321 left out: the score is the raw sum
score_index_uncapped(info, categories) ==
    LET m == match_components(info.components, categories)
    IN  [index |-> info.index,
         score |-> m.score,
         max_score |-> info.max_score,
         matched_components |-> m.matched_components]

\* lines 300-323: one index's entry of the returned list
score_index(info, categories) ==
    LET m == match_components(info.components, categories)
    IN  [index |-> info.index,
         score |-> min(m.score, info.max_score),
         max_score |-> info.max_score,
         matched_components |-> m.matched_components]

calculate_dietary_scores(data, selected) ==
    LET categories == collect_categories(data, selected)
    IN  [i \in DOMAIN dietary_indices |-> score_index(dietary_indices[i], categories)]

-----------------------------------------------------------------------------
(* main, lines 495-498: percentages and the sort                           *)

\* (score / max_score) * 100 as the exact fraction num/den; Python's float
\* division orders and equates these fractions as the fractions themselves
\* (denominators are at most 45)
percentage_of(score, max_score) == [num |-> score * 100, den |-> max_score]

pct_lt(a, b) == a.num * b.den < b.num * a.den

with_percentage(entry) ==
    [index |-> entry.index, score |-> entry.score, max_score |-> entry.max_score,
     matched_components |-> entry.matched_components,
     percentage |-> percentage_of(entry.score, entry.max_score)]

\* x placed before the elements of equal key: an unstable descending sort
insert_desc_before_equal(sorted, x) ==
    LET not_greater == {i \in DOMAIN sorted :
                           ~pct_lt(x.percentage, sorted[i].percentage)}
        at == IF not_greater = {} THEN Len(sorted) + 1
              ELSE CHOOSE i \in not_greater : \A j \in not_greater : i <= j
    IN  SubSeq(sorted, 1, at - 1) \o <<x>> \o SubSeq(sorted, at, Len(sorted))

\* x placed behind every element whose key is not smaller than its own
insert_desc(sorted, x) ==
    LET smaller == {i \in DOMAIN sorted : pct_lt(sorted[i].percentage, x.percentage)}
        at == IF smaller = {} THEN Len(sorted) + 1
              ELSE CHOOSE i \in smaller : \A j \in smaller : i <= j
    IN  SubSeq(sorted, 1, at - 1) \o <<x>> \o SubSeq(sorted, at, Len(sorted))

\* list.sort(key=lambda x: x[4], reverse=True): stable, descending
RECURSIVE sort_by_percentage(_)
sort_by_percentage(s) ==
    IF Len(s) = 0 THEN << >>
    ELSE insert_desc(sort_by_percentage(SubSeq(s, 1, Len(s) - 1)), s[Len(s)])

-----------------------------------------------------------------------------
(* get_doctor_explanation                                                  *)

Digits == "0123456789"

\* str(n) of a natural number
RECURSIVE str(_)
str(n) ==
    IF n < 10 THEN Char(Digits, n + 1)
    ELSE str(n \div 10) \o Char(Digits, (n % 10) + 1)

\* f"{percentage:.1f}": the nearest tenth, a tie going to the even tenth
format_1f(percentage) ==
    LET scaled == 10 * percentage.num
        q == scaled \div percentage.den
        r == scaled % percentage.den
        tenths == IF 2 * r > percentage.den \/ (2 * r = percentage.den /\ q % 2 = 1)
                  THEN q + 1 ELSE q
    IN  str(tenths \div 10) \o "." \o str(tenths % 10)

\* percentage >= bound
pct_ge(percentage, bound) == percentage.num >= bound * percentage.den

\* the bands closed at their upper end instead of their lower end
assessment_exclusive(index, percentage) ==
    LET scored == " Your food scores " \o format_1f(percentage) \o "% on the "
                      \o index \o " scale, "
    IN  IF percentage.num > 70 * percentage.den
        THEN "**Excellent news!**" \o scored \o "which is considered very good."
        ELSE IF percentage.num > 50 * percentage.den
        THEN "**Good progress!**" \o scored \o "which is moderately healthy."
        ELSE IF percentage.num > 30 * percentage.den
        THEN "**Room for improvement.**" \o scored
                 \o "indicating some healthy elements but with potential for enhancement."
        ELSE "**Significant improvement needed.**" \o scored
                 \o "suggesting this food doesn't align well with this dietary pattern."

\* lines 332-339: the overall assessment
assessment(index, percentage) ==
    LET scored == " Your food scores " \o format_1f(percentage) \o "% on the "
                      \o index \o " scale, "
    IN  IF pct_ge(percentage, 70)
        THEN "**Excellent news!**" \o scored \o "which is considered very good."
        ELSE IF pct_ge(percentage, 50)
        THEN "**Good progress!**" \o scored \o "which is moderately healthy."
        ELSE IF pct_ge(percentage, 30)
        THEN "**Room for improvement.**" \o scored
                 \o "indicating some healthy elements but with potential for enhancement."
        ELSE "**Significant improvement needed.**" \o scored
                 \o "suggesting this food doesn't align well with this dietary pattern."

\* the bullet character U+2022 that opens every item line, written as a
\* character a string of this module can hold
Bullet == "-"

\* lines 352-355
positive_line(comp) ==
    IF comp \in DOMAIN component_explanations
    THEN Bullet \o " Your food contains **" \o lower(comp) \o "** - " \o component_explanations[comp]
    ELSE Bullet \o " Your food contains **" \o lower(comp)
             \o "** which contributes positively to this dietary pattern"

\* lines 360-363
negative_line(comp) ==
    IF comp \in DOMAIN negative_explanations
    THEN Bullet \o " Your food contains **" \o lower(comp) \o "** - " \o negative_explanations[comp]
    ELSE Bullet \o " Your food contains **" \o lower(comp)
             \o "** which may not align with this dietary pattern"

\* lines 374-377
missing_line(comp) ==
    IF comp \in DOMAIN component_explanations
    THEN Bullet \o " **" \o lower(comp) \o "** - " \o component_explanations[comp]
    ELSE Bullet \o " **" \o lower(comp) \o "** would benefit this dietary pattern"

\* every matched component counted as a positive one
positive_components_all(matched_components) == matched_components

\* line 346
positive_components_of(matched_components) ==
    SelectSeq(matched_components, LAMBDA comp : comp \notin reverse_scored_components)

\* line 347
negative_components_of(matched_components) ==
    SelectSeq(matched_components, LAMBDA comp : comp \in reverse_scored_components)

\* lines 345-363: the two groups of the matched components
matched_lines(matched_components) ==
    LET positive_components == positive_components_of(matched_components)
        negative_components == negative_components_of(matched_components)
    IN  IF Len(matched_components) = 0 THEN << >>
        ELSE (IF Len(positive_components) = 0 THEN << >>
              ELSE <<"\n**What's working well:**">>
                       \o [k \in DOMAIN positive_components |->
                              positive_line(positive_components[k])])
             \o
             (IF Len(negative_components) = 0 THEN << >>
              ELSE <<"\n**Areas of concern:**">>
                       \o [k \in DOMAIN negative_components |->
                              negative_line(negative_components[k])])

\* lines 366-367
unmatched_of(index, matched_components) ==
    LET components == dietary_indices[index_position(dietary_indices, index)].components
        all_components == [k \in DOMAIN components |-> components[k].component]
    IN  SelectSeq(all_components,
                  LAMBDA comp : /\ comp \notin Range(matched_components)
                                /\ comp \notin reverse_scored_components)

\* the last three of the missing components shown instead of the first three
important_missing_last(unmatched) ==
    LET shown == SubSeq(unmatched, Len(unmatched) - min(3, Len(unmatched)) + 1,
                        Len(unmatched))
    IN  [k \in DOMAIN shown |-> missing_line(shown[k])]

\* lines 372-377: unmatched[:3], one line each
important_missing(unmatched) ==
    LET shown == SubSeq(unmatched, 1, min(3, Len(unmatched)))
    IN  [k \in DOMAIN shown |-> missing_line(shown[k])]

\* lines 369-382: the suggestions
suggestion_lines(unmatched) ==
    IF Len(unmatched) = 0 THEN << >>
    ELSE <<"\n**To improve your score, consider adding:**">>
             \o important_missing(unmatched)
             \o (IF Len(unmatched) > 3
                 THEN <<Bullet \o " ... and " \o str(Len(unmatched) - 3)
                            \o " other beneficial components">>
                 ELSE << >>)

\* lines 329-382: the list `explanation` when the function returns
explanation_list(index, score, max_score, matched_components, percentage) ==
    <<assessment(index, percentage)>>
    \o <<"\n*" \o dietary_indices[index_position(dietary_indices, index)].description
             \o ".*">>
    \o matched_lines(matched_components)
    \o suggestion_lines(unmatched_of(index, matched_components))

\* lines 506-513: the rows of the results table
results_table(shown) ==
    [k \in DOMAIN shown |->
        [Dietary_Index |-> shown[k].index,
         Score |-> str(shown[k].score) \o "/" \o str(shown[k].max_score),
         Percentage |-> format_1f(shown[k].percentage) \o "%",
         Matched_Components |-> Len(shown[k].matched_components)]]

\* sep.join(lines)
RECURSIVE join(_, _)
join(sep, lines) ==
    IF Len(lines) = 0 THEN ""
    ELSE IF Len(lines) = 1 THEN lines[1]
    ELSE LET half == Len(lines) \div 2
         IN  join(sep, SubSeq(lines, 1, half)) \o sep
                 \o join(sep, SubSeq(lines, half + 1, Len(lines)))

\* line 384
get_doctor_explanation(index, score, max_score, matched_components, percentage) ==
    join("\n", explanation_list(index, score, max_score, matched_components, percentage))

\* lines 564-569: one call for each displayed index, in the displayed order;
\* each entry keeps the call's index, its list `explanation` and the text
\* handed to st.markdown
explain(shown) ==
    [k \in DOMAIN shown |->
        [index |-> shown[k].index,
         explanation |-> explanation_list(shown[k].index, shown[k].score,
                             shown[k].max_score, shown[k].matched_components,
                             shown[k].percentage),
         doctor_explanation |-> get_doctor_explanation(shown[k].index, shown[k].score,
                             shown[k].max_score, shown[k].matched_components,
                             shown[k].percentage)]]

-----------------------------------------------------------------------------
(* main, lines 573-605: the summary of the food's components               *)

\* the characters of the categories, in the order of their code points
\* (the printable ASCII characters but the double quote, the backslash and
\* the backquote, which no category of the catalog holds)
Ascii ==
    " !#$%&'()*+,-./0123456789:;<=>?@ABCDEFGHIJKLMNOPQRSTUVWXYZ[]^_abcdefghijklmnopqrstuvwxyz{|}~"

\* the place of a character in that order
code_point == [c \in {Char(Ascii, i) : i \in 1..Len(Ascii)} |->
                  CHOOSE i \in 1..Len(Ascii) : Char(Ascii, i) = c]

\* a < b on strings: by the first character that differs, a prefix first
str_lt(a, b) ==
    LET differ == {i \in 1..min(Len(a), Len(b)) : Char(a, i) # Char(b, i)}
    IN  IF differ = {} THEN Len(a) < Len(b)
        ELSE LET i == CHOOSE d \in differ : \A e \in differ : d <= e
             IN  code_point[Char(a, i)] < code_point[Char(b, i)]

\* sorted(strings), of a collection without repetition
RECURSIVE sorted(_)
sorted(strings) ==
    IF strings = {} THEN << >>
    ELSE LET least == CHOOSE x \in strings : \A y \in strings \ {x} : str_lt(x, y)
         IN  <<least>> \o sorted(strings \ {least})

is_letter(c) == c \in DOMAIN to_lower \/ c \in DOMAIN to_upper

\* str.title(): a letter that follows no letter in capitals, the others lowered
RECURSIVE title_range(_, _, _)
title_range(s, lo, hi) ==
    IF lo > hi THEN ""
    ELSE IF lo = hi
         THEN IF lo > 1 /\ is_letter(Char(s, lo - 1))
              THEN char_lower(Char(s, lo)) ELSE char_upper(Char(s, lo))
    ELSE LET mid == (lo + hi) \div 2
         IN  title_range(s, lo, mid) \o title_range(s, mid + 1, hi)

title(s) == title_range(s, 1, Len(s))

\* the two pictographs that open the summary's headers (U+2705, and U+26A0
\* with U+FE0F), written as characters a string of this module can hold
CheckMark == "+"
WarningSign == "!"

\* lines 594-597
healthy_line(category) ==
    IF category \in DOMAIN component_explanations
    THEN Bullet \o " **" \o title(category) \o "** - " \o component_explanations[category]
    ELSE Bullet \o " **" \o title(category) \o "** - generally beneficial for health"

\* lines 602-605
concerning_line(category) ==
    IF category \in DOMAIN negative_explanations
    THEN Bullet \o " **" \o title(category) \o "** - " \o negative_explanations[category]
    ELSE Bullet \o " **" \o title(category) \o "** - should be consumed in moderation"

\* line 589
concerning_categories_of(categories) ==
    {cat \in categories : cat \in reverse_scored_components}

\* line 588
healthy_categories_of(categories) ==
    {cat \in categories : cat \notin reverse_scored_components}

\* lines 576-605: the two lists as they are written, sorted, and the texts
\* handed to st.markdown and st.write
summary(data, selected) ==
    LET categories == collect_categories(data, selected)
        healthy_categories == sorted(healthy_categories_of(categories))
        concerning_categories == sorted(concerning_categories_of(categories))
    IN  [healthy_categories |-> healthy_categories,
         concerning_categories |-> concerning_categories,
         written |->
             (IF Len(healthy_categories) = 0 THEN << >>
              ELSE <<"**" \o CheckMark \o " Beneficial components in your food:**">>
                       \o [k \in DOMAIN healthy_categories |->
                              healthy_line(healthy_categories[k])])
             \o
             (IF Len(concerning_categories) = 0 THEN << >>
              ELSE <<"**" \o WarningSign \o " Components to be mindful of:**">>
                       \o [k \in DOMAIN concerning_categories |->
                              concerning_line(concerning_categories[k])])]

-----------------------------------------------------------------------------
(* main: one page rerun                                                    *)

\* the confidences process.extractOne is taken to return
Confidences == {0, 49, 50, 51, 100}

\* process.extractOne(user_input, food_names), a call into rapidfuzz: None
\* when there is no choice, else some name of the list with its confidence
extractOne(query, choices) ==
    IF Len(choices) = 0 THEN {None}
    ELSE {Some([name |-> choices[i], confidence |-> c]) :
             i \in DOMAIN choices, c \in Confidences}

\* the threshold taken as exclusive
accepted_above(match) == match # None /\ Val(match).confidence > 50

\* line 420: best_match and best_match[1] >= 50
accepted(match) == match # None /\ Val(match).confidence >= 50

\* line 433: st.session_state.selected_food and st.session_state.food_data
displayed(name, data) == name # None /\ name # Some("") /\ data # None

\* lines 464-478: the ticked checkboxes, in the order of optional_ingredients
ticked_list(data, ticked) ==
    LET names == [i \in DOMAIN data.optional_ingredients |->
                     data.optional_ingredients[i].name]
        Ticked(n) == n \in ticked
    IN  SelectSeq(names, Ticked)

\* lines 496-497: the division raises on a zero max_score
raises(result) == \E i \in DOMAIN result : result[i].max_score = 0

\* lines 496-498
present(result) ==
    sort_by_percentage([i \in DOMAIN result |-> with_percentage(result[i])])

\* a failed search leaving the session's selection as it was
main_failed_search_keeps(input, ticked, search_button, calc_button, match) ==
    LET searching == search_button /\ input # ""
        name == IF ~searching THEN selected_food
                ELSE IF accepted(match) THEN Some(Val(match).name) ELSE selected_food
        data == IF ~searching THEN food_data
                ELSE IF accepted(match) THEN Some(foods_get(foods, Val(match).name))
                ELSE food_data
        shown == displayed(name, data)
        selection == IF shown THEN Some(ticked_list(Val(data), ticked)) ELSE None
        result == IF shown /\ calc_button
                  THEN Some(calculate_dietary_scores(Val(data), Val(selection)))
                  ELSE None
    IN  /\ user_input' = input
        /\ best_match' = IF searching THEN match ELSE None
        /\ selected_food' = name
        /\ food_data' = data
        /\ message' = IF ~searching THEN "none"
                      ELSE IF ~accepted(match) THEN "error"
                      ELSE IF Val(match).confidence < 100 THEN "info" ELSE "success"
        \* a checkbox that is not drawn in a run loses its widget state
        /\ checked' = IF shown THEN ticked \cap optional_names(Val(data)) ELSE {}
        /\ selected_optionals' = selection
        /\ scores' = result
        /\ exception' = IF result # None /\ raises(Val(result))
                        THEN "ZeroDivisionError" ELSE "none"
        /\ scores_with_percentage' =
               IF result = None \/ raises(Val(result)) THEN None
               ELSE Some(present(Val(result)))
        /\ results_data' =
               IF result = None \/ raises(Val(result)) THEN None
               ELSE Some(results_table(present(Val(result))))
        /\ doctor_explanation' =
               IF result = None \/ raises(Val(result)) THEN None
               ELSE Some(explain(present(Val(result))))
        /\ food_summary' =
               IF result = None \/ raises(Val(result)) THEN None
               ELSE Some(summary(Val(data), Val(selection)))
        /\ UNCHANGED <<tables, foods, norm_in, norm_out, norm_again>>

\* One run of main from top to bottom: the text input holds `input`, the
\* checkboxes in `ticked` are ticked, at most one of the two buttons was
\* pressed, and extractOne (when called) returns `match`. Lines 517-557 draw
\* the chart from scores_with_percentage and assign nothing that outlives
\* the run; lines 559-608 write the explanations and the summary.
main(input, ticked, search_button, calc_button, match) ==
    LET searching == search_button /\ input # ""
        name == IF ~searching THEN selected_food
                ELSE IF accepted(match) THEN Some(Val(match).name) ELSE None
        data == IF ~searching THEN food_data
                ELSE IF accepted(match) THEN Some(foods_get(foods, Val(match).name))
                ELSE None
        shown == displayed(name, data)
        selection == IF shown THEN Some(ticked_list(Val(data), ticked)) ELSE None
        result == IF shown /\ calc_button
                  THEN Some(calculate_dietary_scores(Val(data), Val(selection)))
                  ELSE None
    IN  /\ user_input' = input
        /\ best_match' = IF searching THEN match ELSE None
        /\ selected_food' = name
        /\ food_data' = data
        /\ message' = IF ~searching THEN "none"
                      ELSE IF ~accepted(match) THEN "error"
                      ELSE IF Val(match).confidence < 100 THEN "info" ELSE "success"
        \* a checkbox that is not drawn in a run loses its widget state
        /\ checked' = IF shown THEN ticked \cap optional_names(Val(data)) ELSE {}
        /\ selected_optionals' = selection
        /\ scores' = result
        /\ exception' = IF result # None /\ raises(Val(result))
                        THEN "ZeroDivisionError" ELSE "none"
        /\ scores_with_percentage' =
               IF result = None \/ raises(Val(result)) THEN None
               ELSE Some(present(Val(result)))
        /\ results_data' =
               IF result = None \/ raises(Val(result)) THEN None
               ELSE Some(results_table(present(Val(result))))
        /\ doctor_explanation' =
               IF result = None \/ raises(Val(result)) THEN None
               ELSE Some(explain(present(Val(result))))
        /\ food_summary' =
               IF result = None \/ raises(Val(result)) THEN None
               ELSE Some(summary(Val(data), Val(selection)))
        /\ UNCHANGED <<tables, foods, norm_in, norm_out, norm_again>>

Queries == {"", "Pizza"}

\* the user edits the text input: a rerun with no button pressed
TypeInput ==
    \E q \in Queries :
        /\ q # user_input
        /\ main(q, checked, FALSE, FALSE, None)

\* the user presses "Search"
Search ==
    \E q \in Queries :
        \E match \in extractOne(q, food_names_of(foods)) :
            main(q, checked, TRUE, FALSE, match)

\* the user ticks or unticks the checkbox of an optional ingredient
Toggle ==
    /\ displayed(selected_food, food_data)
    /\ \E n \in optional_names(Val(food_data)) :
        main(user_input, (checked \ {n}) \cup ({n} \ checked), FALSE, FALSE, None)

\* the user presses "Calculate Dietary Scores"
Calculate ==
    /\ displayed(selected_food, food_data)
    /\ main(user_input, checked, FALSE, TRUE, None)

\* the state of a fresh session, lines 396-399, with no rerun made yet
Fresh ==
    /\ selected_food = None
    /\ food_data = None
    /\ user_input = ""
    /\ checked = {}
    /\ message = "none"
    /\ best_match = None
    /\ selected_optionals = None
    /\ scores = None
    /\ scores_with_percentage = None
    /\ results_data = None
    /\ food_summary = None
    /\ doctor_explanation = None
    /\ exception = "none"
    /\ norm_in = None
    /\ norm_out = None
    /\ norm_again = None

\* the module-level tables as the literals of lines 179-252 build them
OtherTables ==
    /\ reverse_scored_components = reverse_scored_components_literal
    /\ component_explanations = component_explanations_literal
    /\ negative_explanations = negative_explanations_literal

Init ==
    /\ dietary_indices = dietary_indices_literal
    /\ OtherTables
    /\ foods \in Catalogs
    /\ Fresh

Next == TypeInput \/ Search \/ Toggle \/ Calculate

Spec == Init /\ [][Next]_vars

-----------------------------------------------------------------------------
(* calculate_dietary_scores called directly, with any list of names        *)

\* how many names that are no optional ingredient of the food a call may pass
MaxUnknown == 1

\* every optional-ingredient name of the sample catalog, and one of no food
NameUniverse ==
    UNION {optional_names(sample_foods[i].data) : i \in DOMAIN sample_foods}
    \cup {"Ghost"}

\* a set of names as a Python list: the food's own names in their order,
\* then the others
RECURSIVE list_of(_)
list_of(names) ==
    IF names = {} THEN << >>
    ELSE LET n == CHOOSE x \in names : TRUE
         IN  <<n>> \o list_of(names \ {n})

Selections(data) ==
    {known \cup unknown :
        known \in SUBSET optional_names(data),
        unknown \in {u \in SUBSET (NameUniverse \ optional_names(data)) :
                        Cardinality(u) <= MaxUnknown}}

\* the arguments a call may be given: a food of the catalog and a list
call_of(data, names) ==
    [food_data |-> data,
     selected_optionals |-> ticked_list(data, names)
                                \o list_of(names \ optional_names(data))]

Calls(fs) ==
    UNION {{call_of(fs[i].data, names) : names \in Selections(fs[i].data)} :
              i \in DOMAIN fs}

\* scores = calculate_dietary_scores(food_data, selected_optionals)
ScoreCall ==
    /\ food_data # None
    /\ selected_optionals # None
    /\ scores = None
    /\ scores' = Some(calculate_dietary_scores(Val(food_data), Val(selected_optionals)))
    /\ UNCHANGED <<tables, foods, selected_food, food_data, user_input,
                   checked, message, best_match, selected_optionals,
                   scores_with_percentage, results_data, food_summary,
                   doctor_explanation,
                   exception,
                   norm_in, norm_out, norm_again>>

ScoreInit ==
    /\ dietary_indices = dietary_indices_literal
    /\ OtherTables
    /\ foods = sample_foods
    /\ selected_food = None
    /\ \E call \in Calls(sample_foods) :
        /\ food_data = Some(call.food_data)
        /\ selected_optionals = Some(call.selected_optionals)
    /\ user_input = ""
    /\ checked = {}
    /\ message = "none"
    /\ best_match = None
    /\ scores = None
    /\ scores_with_percentage = None
    /\ results_data = None
    /\ food_summary = None
    /\ doctor_explanation = None
    /\ exception = "none"
    /\ norm_in = None
    /\ norm_out = None
    /\ norm_again = None

ScoreNext == ScoreCall

ScoreSpec == ScoreInit /\ [][ScoreNext]_vars

-----------------------------------------------------------------------------
(* normalize_category called directly                                      *)

\* how many white-space characters an input carries on each side
MaxPad == 2

\* lower-case, trimmed spellings: every alias key, every alias target, and
\* categories that are no alias key
NormBases ==
    DOMAIN category_mappings
    \cup {category_mappings[k] : k \in DOMAIN category_mappings}
    \cup {"fruit", "whole grains", "nuts", "fish", "dairy", "low-fat dairy",
          "sodium", "energy (kcal)", "olive oil", "egg", "thyme/oregano (mg)",
          "n-3 fats", "pufa", "vegetable", "bean", "", "a b"}

RECURSIVE pad(_, _)
pad(c, n) == IF n = 0 THEN "" ELSE c \o pad(c, n - 1)

capitalized(s) == IF Len(s) = 0 THEN "" ELSE upper(Char(s, 1)) \o SubSeq(s, 2, Len(s))

\* the spellings of a base: as it is, in capitals, with a capital first letter
Spellings(b) == {b, upper(b), capitalized(b)}

NormInputs ==
    {pad(" ", l) \o w \o pad("\t", r) :
        w \in UNION {Spellings(b) : b \in NormBases}, l \in 0..MaxPad, r \in 0..MaxPad}

Normalize ==
    /\ norm_in # None
    /\ norm_out = None
    /\ norm_out' = Some(normalize_category(Val(norm_in)))
    /\ UNCHANGED <<tables, foods, selected_food, food_data, user_input,
                   checked, message, best_match, selected_optionals, scores,
                   scores_with_percentage, results_data, food_summary,
                   doctor_explanation,
                   exception,
                   norm_in, norm_again>>

NormalizeAgain ==
    /\ norm_out # None
    /\ norm_again = None
    /\ norm_again' = Some(normalize_category(Val(norm_out)))
    /\ UNCHANGED <<tables, foods, selected_food, food_data, user_input,
                   checked, message, best_match, selected_optionals, scores,
                   scores_with_percentage, results_data, food_summary,
                   doctor_explanation,
                   exception,
                   norm_in, norm_out>>

NormInit ==
    /\ dietary_indices = dietary_indices_literal
    /\ OtherTables
    /\ foods = sample_foods
    /\ selected_food = None
    /\ food_data = None
    /\ user_input = ""
    /\ checked = {}
    /\ message = "none"
    /\ best_match = None
    /\ selected_optionals = None
    /\ scores = None
    /\ scores_with_percentage = None
    /\ results_data = None
    /\ food_summary = None
    /\ doctor_explanation = None
    /\ exception = "none"
    /\ norm_in \in {Some(x) : x \in NormInputs}
    /\ norm_out = None
    /\ norm_again = None

NormNext == Normalize \/ NormalizeAgain

NormSpec == NormInit /\ [][NormNext]_vars

-----------------------------------------------------------------------------
(* The page run over an index catalog whose literal was edited: lines      *)
(* 28-176 assign the dict and nothing inspects it before main runs.        *)

malformed(catalog) ==
    \E i \in DOMAIN catalog :
        catalog[i].max_score = 0 \/ Len(catalog[i].components) = 0

MalformedCatalogs ==
    {[dietary_indices_literal EXCEPT
         ![index_position(dietary_indices_literal, "DASH")].max_score = 0],
     [dietary_indices_literal EXCEPT
         ![index_position(dietary_indices_literal, "aMED")].components = << >>]}

ConfigInit ==
    /\ dietary_indices \in MalformedCatalogs
    /\ OtherTables
    /\ foods = sample_foods
    /\ Fresh

ConfigSpec == ConfigInit /\ [][Next]_vars

-----------------------------------------------------------------------------
(* get_doctor_explanation called directly, as the loop of lines 564-569    *)
(* calls it, on one entry with any percentage                              *)

\* the percentages a call is given, in tenths: the band limits, the tenth
\* below and the tenth above each, and the two ends
Percentages ==
    {[num |-> n, den |-> 10] :
        n \in {0, 299, 300, 301, 499, 500, 501, 699, 700, 701, 1000}}

\* the matched lists a call is given: none of the index's components, all of
\* them, the reverse-scored ones, the others
MatchedLists(components) ==
    LET all_components == [k \in DOMAIN components |-> components[k].component]
    IN  {<< >>,
         all_components,
         SelectSeq(all_components, LAMBDA comp : comp \in reverse_scored_components_literal),
         SelectSeq(all_components, LAMBDA comp : comp \notin reverse_scored_components_literal)}

ExplainCalls ==
    UNION {{[index |-> dietary_indices_literal[i].index,
             score |-> Len(matched_components),
             max_score |-> dietary_indices_literal[i].max_score,
             matched_components |-> matched_components,
             percentage |-> percentage] :
                matched_components \in MatchedLists(dietary_indices_literal[i].components),
                percentage \in Percentages} :
              i \in DOMAIN dietary_indices_literal}

\* doctor_explanation = get_doctor_explanation(index, score, max_score,
\*                                             matched_components, percentage)
Explain ==
    /\ scores_with_percentage # None
    /\ doctor_explanation = None
    /\ doctor_explanation' = Some(explain(Val(scores_with_percentage)))
    /\ UNCHANGED <<tables, foods, selected_food, food_data, user_input,
                   checked, message, best_match, selected_optionals, scores,
                   scores_with_percentage, results_data, food_summary, exception,
                   norm_in, norm_out, norm_again>>

ExplainInit ==
    /\ dietary_indices = dietary_indices_literal
    /\ OtherTables
    /\ foods = sample_foods
    /\ selected_food = None
    /\ food_data = None
    /\ user_input = ""
    /\ checked = {}
    /\ message = "none"
    /\ best_match = None
    /\ selected_optionals = None
    /\ scores = None
    /\ scores_with_percentage \in {Some(<<call>>) : call \in ExplainCalls}
    /\ results_data = None
    /\ food_summary = None
    /\ doctor_explanation = None
    /\ exception = "none"
    /\ norm_in = None
    /\ norm_out = None
    /\ norm_again = None

ExplainNext == Explain

ExplainSpec == ExplainInit /\ [][ExplainNext]_vars

-----------------------------------------------------------------------------
(* src/app.py, the earlier variant of the page: categories are compared as *)
(* they are spelled, the components of an index are a list, and the result *)
(* has no matched list.                                                    *)

\* app.py lines 26-81: the indices of app_2.py, each with the keys of its
\* component mapping as a list, in the same order, and the same max_score
app_dietary_indices_literal ==
    [i \in DOMAIN dietary_indices_literal |->
        [index |-> dietary_indices_literal[i].index,
         components |-> [k \in DOMAIN dietary_indices_literal[i].components |->
                            dietary_indices_literal[i].components[k].component],
         max_score |-> dietary_indices_literal[i].max_score]]

\* app.py lines 86-95
app_collect_categories(data, selected) ==
    {info.category : info \in Range(data.primary_ingredients)}
    \cup
    {info.category :
        info \in {e \in Range(data.optional_ingredients) : e.name \in Range(selected)}}

\* app.py lines 99-108: one index's entry of the returned list
app_score_index(info, categories) ==
    LET index_components == info.components
        \* sum(1 for comp in index_components if comp in categories)
        counted == Cardinality({k \in DOMAIN index_components :
                                   index_components[k] \in categories})
        energy == IF "Energy (kcal)" \in Range(index_components) THEN 1 ELSE 0
    IN  [index |-> info.index,
         score |-> counted + energy,
         max_score |-> info.max_score]

\* app.py lines 83-110
app_calculate_dietary_scores(data, selected) ==
    LET categories == app_collect_categories(data, selected)
    IN  [i \in DOMAIN dietary_indices |-> app_score_index(dietary_indices[i], categories)]

\* app.py lines 227-234: the rows of the results table, in the order of scores
app_results_table(result) ==
    [k \in DOMAIN result |->
        [Dietary_Index |-> result[k].index,
         Score |-> str(result[k].score) \o "/" \o str(result[k].max_score),
         Percentage |-> format_1f(percentage_of(result[k].score, result[k].max_score))
                            \o "%"]]

\* One run of app.py's main, lines 112-278: as main above up to the scoring
\* call; then the results table. Lines 238-278 draw the chart and the
\* breakdown and assign nothing that outlives the run.
app_main(input, ticked, search_button, calc_button, match) ==
    LET searching == search_button /\ input # ""
        name == IF ~searching THEN selected_food
                ELSE IF accepted(match) THEN Some(Val(match).name) ELSE None
        data == IF ~searching THEN food_data
                ELSE IF accepted(match) THEN Some(foods_get(foods, Val(match).name))
                ELSE None
        shown == displayed(name, data)
        selection == IF shown THEN Some(ticked_list(Val(data), ticked)) ELSE None
        result == IF shown /\ calc_button
                  THEN Some(app_calculate_dietary_scores(Val(data), Val(selection)))
                  ELSE None
    IN  /\ user_input' = input
        /\ best_match' = IF searching THEN match ELSE None
        /\ selected_food' = name
        /\ food_data' = data
        /\ message' = IF ~searching THEN "none"
                      ELSE IF ~accepted(match) THEN "error"
                      ELSE IF Val(match).confidence < 100 THEN "info" ELSE "success"
        /\ checked' = IF shown THEN ticked \cap optional_names(Val(data)) ELSE {}
        /\ selected_optionals' = selection
        /\ scores' = result
        /\ exception' = IF result # None /\ raises(Val(result))
                        THEN "ZeroDivisionError" ELSE "none"
        /\ results_data' =
               IF result = None \/ raises(Val(result)) THEN None
               ELSE Some(app_results_table(Val(result)))
        /\ scores_with_percentage' = None
        /\ doctor_explanation' = None
        /\ food_summary' = None
        /\ UNCHANGED <<tables, foods, norm_in, norm_out, norm_again>>

AppTypeInput ==
    \E q \in Queries :
        /\ q # user_input
        /\ app_main(q, checked, FALSE, FALSE, None)

AppSearch ==
    \E q \in Queries :
        \E match \in extractOne(q, food_names_of(foods)) :
            app_main(q, checked, TRUE, FALSE, match)

AppToggle ==
    /\ displayed(selected_food, food_data)
    /\ \E n \in optional_names(Val(food_data)) :
        app_main(user_input, (checked \ {n}) \cup ({n} \ checked), FALSE, FALSE, None)

AppCalculate ==
    /\ displayed(selected_food, food_data)
    /\ app_main(user_input, checked, FALSE, TRUE, None)

\* a food whose categories are spelled as the labels of AHEI-2010 are
harvest_platter ==
    food("Harvest Platter",
         << ingredient("Squash", "other vegetables"),
            ingredient("Pear", "Fruit"),
            ingredient("Barley", "Whole Grains"),
            ingredient("Pecans", "nuts"),
            ingredient("Trout", "fish"),
            ingredient("Turkey breast", "poultry (not fried, skinless)"),
            ingredient("Milk", "dairy"),
            ingredient("Rapeseed oil", "vegetable oils"),
            ingredient("Chia", "n-3 fats"),
            ingredient("Sunflower seeds", "PUFA"),
            ingredient("Cider", "alcohol") >>,
         << ingredient("Salami", "red & processed meat"),
            ingredient("Pastry crust", "trans fat") >>)

\* app.py has none of the three other tables of app_2.py
AppInit ==
    /\ dietary_indices = app_dietary_indices_literal
    /\ reverse_scored_components = {}
    /\ component_explanations = << >>
    /\ negative_explanations = << >>
    /\ foods = Append(sample_foods, harvest_platter)
    /\ Fresh

AppNext == AppTypeInput \/ AppSearch \/ AppToggle \/ AppCalculate

AppSpec == AppInit /\ [][AppNext]_vars

-----------------------------------------------------------------------------
(* Properties                                                              *)

RECURSIVE sum_points(_)
sum_points(components) ==
    IF Len(components) = 0 THEN 0
    ELSE components[1].points + sum_points(Tail(components))

labels(components) == {components[i].component : i \in DOMAIN components}

weight(components, label) ==
    (CHOOSE e \in Range(components) : e.component = label).points

occurrences(list, x) == Cardinality({i \in DOMAIN list : list[i] = x})

\* C1: every entry calculate_dietary_scores returns has 0 <= score <=
\* max_score, and the percentage main derives from it is score / max_score *
\* 100 and lies in [0, 100].
C1_ScoreWithinMaximum ==
    /\ scores # None =>
          \A i \in DOMAIN Val(scores) :
              /\ 0 <= Val(scores)[i].score
              /\ Val(scores)[i].score <= Val(scores)[i].max_score
    /\ scores_with_percentage # None =>
          \A i \in DOMAIN Val(scores_with_percentage) :
              LET e == Val(scores_with_percentage)[i]
              IN  /\ e.percentage.den > 0
                  /\ e.percentage.num * e.max_score = e.score * 100 * e.percentage.den
                  /\ 0 <= e.percentage.num
                  /\ e.percentage.num <= 100 * e.percentage.den

\* a scoring in which more components matched than the index's maximum
C1_Witness ==
    /\ scores_with_percentage # None
    /\ \E i \in DOMAIN Val(scores) :
          /\ Len(Val(scores)[i].matched_components) > Val(scores)[i].max_score
          /\ Val(scores)[i].score = Val(scores)[i].max_score

\* C2: an index whose components hold "Energy (kcal)" lists it exactly once
\* among the matched components and counts its weight exactly once, whatever
\* the food's categories.
C2_EnergyCountedOnce ==
    scores # None =>
        \A i \in DOMAIN Val(scores) :
            LET e == Val(scores)[i]
                components == dietary_indices[i].components
                others == SelectSeq(e.matched_components,
                                    LAMBDA c : c # "Energy (kcal)")
                others_points == sum_points([k \in DOMAIN others |->
                                     [points |-> weight(components, others[k])]])
            IN  "Energy (kcal)" \in labels(components) =>
                    /\ occurrences(e.matched_components, "Energy (kcal)") = 1
                    /\ e.score = min(others_points + weight(components, "Energy (kcal)"),
                                     e.max_score)

\* a scored food one of whose own categories normalises to "energy (kcal)"
C2_Witness ==
    /\ scores # None
    /\ "energy (kcal)" \in collect_categories(Val(food_data), Val(selected_optionals))
    /\ \E i \in DOMAIN Val(scores) :
          "Energy (kcal)" \in Range(Val(scores)[i].matched_components)

\* the names of a list that are optional ingredients of the food
restricted(data, selected) ==
    SelectSeq(selected, LAMBDA n : n \in optional_names(data))

\* C3: names of selected_optionals that are no optional ingredient of the
\* food change nothing: the result is that of the call with those names
\* taken out.
C3_UnknownNamesIgnored ==
    scores # None =>
        Val(scores) = calculate_dietary_scores(
                          Val(food_data),
                          restricted(Val(food_data), Val(selected_optionals)))

\* a call that passed a name the food does not have, on a food with optionals
C3_Witness ==
    /\ scores # None
    /\ Len(Val(food_data).optional_ingredients) > 0
    /\ \E n \in Range(Val(selected_optionals)) : n \notin optional_names(Val(food_data))
    /\ restricted(Val(food_data), Val(selected_optionals)) = << >>

C5_NormalizeIdempotent ==
    /\ norm_again # None => norm_again = norm_out
    /\ \A k \in DOMAIN category_mappings :
          category_mappings[k] \in DOMAIN category_mappings =>
              category_mappings[category_mappings[k]] = category_mappings[k]

\* an input that hit an alias and was normalised twice
C5_Witness ==
    /\ norm_again # None
    /\ Val(norm_out) # strip(lower(Val(norm_in)))

\* the bases of which a string is a spelling
bases_of(x) ==
    {b \in NormBases :
        \E w \in Spellings(b), l \in 0..MaxPad, r \in 0..MaxPad :
            x = pad(" ", l) \o w \o pad("\t", r)}

\* C6: a spelling of an alias key, in any case and with any surrounding
\* white space, gives the key's target; a spelling of anything else gives it
\* lower-cased and trimmed.
C6_CaseAndSpaceInsensitive ==
    /\ norm_out # None =>
          \A b \in bases_of(Val(norm_in)) :
              Val(norm_out) = IF b \in DOMAIN category_mappings
                              THEN category_mappings[b] ELSE b
    /\ normalize_category("Vegetables") = "other vegetables"
    /\ normalize_category("  VEGETABLES ") = "other vegetables"
    /\ normalize_category("vegetables") = "other vegetables"

\* an alias key in capitals with white space on both sides, normalised
C6_Witness ==
    /\ norm_out # None
    /\ \E b \in DOMAIN category_mappings :
          /\ Val(norm_in) = pad(" ", MaxPad) \o upper(b) \o pad("\t", MaxPad)
          /\ Val(norm_out) = category_mappings[b]

\* C7: a search selects the candidate extractOne returned exactly when its
\* confidence is at least 50, and the selected name is a key of the catalog;
\* otherwise it reports an error and nothing is selected.
C7_AcceptedFromFifty ==
    message # "none" =>
        IF best_match # None /\ Val(best_match).confidence >= 50
        THEN /\ message \in {"info", "success"}
             /\ selected_food = Some(Val(best_match).name)
             /\ Val(best_match).name \in Range(food_names_of(foods))
             /\ food_data = Some(foods_get(foods, Val(best_match).name))
        ELSE /\ message = "error"
             /\ selected_food = None
             /\ food_data = None

\* a search whose candidate had confidence 50 exactly and was selected
C7_Witness ==
    /\ best_match # None
    /\ Val(best_match).confidence = 50
    /\ selected_food = Some(Val(best_match).name)

displayed_position(name) == index_position(dietary_indices, name)

\* C8: the displayed list holds every index once, by percentage descending,
\* and indices of equal percentage in the order of dietary_indices.
C8_SortedStable ==
    scores_with_percentage # None =>
        LET shown == Val(scores_with_percentage)
        IN  /\ Len(shown) = Len(dietary_indices)
            /\ \A i \in DOMAIN Val(scores) :
                  \E j \in DOMAIN shown : shown[j] = with_percentage(Val(scores)[i])
            /\ \A i, j \in DOMAIN shown :
                  i < j =>
                      /\ ~pct_lt(shown[i].percentage, shown[j].percentage)
                      /\ (shown[i].percentage.num * shown[j].percentage.den
                             = shown[j].percentage.num * shown[i].percentage.den)
                         => displayed_position(shown[i].index)
                                < displayed_position(shown[j].index)

\* a displayed list with two indices tied and an index moved ahead of an
\* earlier one
C8_Witness ==
    /\ scores_with_percentage # None
    /\ LET shown == Val(scores_with_percentage)
       IN  /\ \E i, j \in DOMAIN shown :
                 /\ i < j
                 /\ shown[i].percentage.num * shown[j].percentage.den
                        = shown[j].percentage.num * shown[i].percentage.den
                 /\ shown[i].percentage.num > 0
           /\ \E i, j \in DOMAIN shown :
                 /\ i < j
                 /\ displayed_position(shown[i].index) > displayed_position(shown[j].index)

C10_MaxScoreIsWeightSum ==
    \A i \in DOMAIN dietary_indices :
        dietary_indices[i].max_score = sum_points(dietary_indices[i].components)

starts_with(s, prefix) ==
    Len(s) >= Len(prefix) /\ SubSeq(s, 1, Len(prefix)) = prefix

Headlines ==
    {"**Excellent news!**", "**Good progress!**", "**Room for improvement.**",
     "**Significant improvement needed.**"}

\* the headlines a list of lines opens lines with, each with its line
headlines_in(lines) ==
    {<<k, h>> \in (DOMAIN lines) \X Headlines : starts_with(lines[k], h)}

\* the headline of the band a percentage num/den lies in
band(percentage) ==
    IF percentage.num >= 70 * percentage.den THEN "**Excellent news!**"
    ELSE IF percentage.num >= 50 * percentage.den THEN "**Good progress!**"
    ELSE IF percentage.num >= 30 * percentage.den THEN "**Room for improvement.**"
    ELSE "**Significant improvement needed.**"

\* C11: an explanation has exactly one headline, its first line, and it is
\* the one of the band of the percentage: "Excellent" from 70, "Good
\* progress" from 50 to below 70, "Room for improvement" from 30 to below 50,
\* "Significant improvement needed" below 30; 70, 50 and 30 belong to the
\* band above them.
C11_HeadlineByBand ==
    doctor_explanation # None =>
        \A k \in DOMAIN Val(doctor_explanation) :
            headlines_in(Val(doctor_explanation)[k].explanation)
                = {<<1, band(Val(scores_with_percentage)[k].percentage)>>}

\* explanations made for exactly 70, exactly 50 and exactly 30 percent are
\* not all reachable in one state: this one is the call with exactly 70
C11_Witness ==
    /\ doctor_explanation # None
    /\ \E k \in DOMAIN Val(doctor_explanation) :
          /\ Val(scores_with_percentage)[k].percentage.num
                 = 70 * Val(scores_with_percentage)[k].percentage.den
          /\ starts_with(Val(doctor_explanation)[k].explanation[1], "**Excellent news!**")

\* the lines of the group a header opens: the item lines that follow it
group_items(lines, header) ==
    {k \in DOMAIN lines :
        \E h \in DOMAIN lines :
            /\ lines[h] = header
            /\ h < k
            /\ \A j \in (h + 1)..k : starts_with(lines[j], Bullet)}

\* the line is the item of component comp in one of the two matched groups
mentions(line, comp) ==
    starts_with(line, Bullet \o " Your food contains **" \o lower(comp) \o "**")

positive_items(lines, comp) ==
    {k \in group_items(lines, "\n**What's working well:**") : mentions(lines[k], comp)}

negative_items(lines, comp) ==
    {k \in group_items(lines, "\n**Areas of concern:**") : mentions(lines[k], comp)}

\* the reverse-scored components of index number i that a selected optional
\* ingredient of the scored food brings in
selected_reverse(i) ==
    {comp \in labels(dietary_indices[i].components) \cap reverse_scored_components :
        \E e \in Range(Val(food_data).optional_ingredients) :
            /\ e.name \in Range(Val(selected_optionals))
            /\ normalize_category(e.category) = normalize_category(comp)}

\* C12: in the explanation of every index, a reverse-scored component of the
\* index that a selected optional ingredient's category normalises to is
\* listed once under "Areas of concern" and not under "What's working well",
\* and every matched component is listed once, in one of the two groups.
C12_ReverseScoredUnderConcern ==
    doctor_explanation # None =>
        \A k \in DOMAIN Val(doctor_explanation) :
            LET lines == Val(doctor_explanation)[k].explanation
                i == index_position(dietary_indices, Val(doctor_explanation)[k].index)
            IN  /\ \A comp \in selected_reverse(i) :
                      /\ Cardinality(negative_items(lines, comp)) = 1
                      /\ positive_items(lines, comp) = {}
                /\ \A comp \in Range(Val(scores)[i].matched_components) :
                      Cardinality(positive_items(lines, comp))
                          + Cardinality(negative_items(lines, comp)) = 1

\* Pizza scored with its pepperoni ticked: MIND's explanation lists "red &
\* processed meat" under the areas of concern
C12_Witness ==
    /\ doctor_explanation # None
    /\ \E e \in Range(Val(food_data).optional_ingredients) :
          /\ e.name \in Range(Val(selected_optionals))
          /\ normalize_category(e.category) = "red & processed meat"
    /\ \E k \in DOMAIN Val(doctor_explanation) :
          /\ Val(doctor_explanation)[k].index = "MIND"
          /\ negative_items(Val(doctor_explanation)[k].explanation,
                            "red & processed meat") # {}

SuggestionHeader == "\n**To improve your score, consider adding:**"

\* the components of index number i that one entry of the scoring result
\* leaves to suggest: not matched and not reverse-scored, in the index's order
candidates(i) ==
    LET components == dietary_indices[i].components
        all_components == [k \in DOMAIN components |-> components[k].component]
    IN  SelectSeq(all_components,
                  LAMBDA comp : /\ comp \notin Range(Val(scores)[i].matched_components)
                                /\ comp \notin reverse_scored_components)

\* the line is the suggestion of component comp
suggests(line, comp) == starts_with(line, Bullet \o " **" \o lower(comp) \o "**")

remainder_line(line) == starts_with(line, Bullet \o " ... and ")

\* C13: the suggestions of an explanation are the first 3 of the index's
\* components that are neither matched nor reverse-scored, in the index's
\* order; with n > 3 of them a last line gives the count n - 3, with n <= 3
\* there is no such line, and with n = 0 there is no suggestions section.
C13_FirstThreeSuggestions ==
    doctor_explanation # None =>
        \A k \in DOMAIN Val(doctor_explanation) :
            LET lines == Val(doctor_explanation)[k].explanation
                i == index_position(dietary_indices, Val(doctor_explanation)[k].index)
                missing == candidates(i)
                n == Len(missing)
                headers == {h \in DOMAIN lines : lines[h] = SuggestionHeader}
                shown == IF n > 3 THEN 3 ELSE n
            IN  IF n = 0
                THEN /\ headers = {}
                     /\ \A j \in DOMAIN lines :
                           \A comp \in labels(dietary_indices[i].components) :
                               ~suggests(lines[j], comp)
                ELSE /\ Cardinality(headers) = 1
                     /\ \A h \in headers :
                           /\ \A j \in 1..shown : suggests(lines[h + j], missing[j])
                           /\ IF n > 3
                              THEN /\ Len(lines) = h + 4
                                   /\ lines[h + 4] = Bullet \o " ... and " \o str(n - 3)
                                                         \o " other beneficial components"
                              ELSE /\ Len(lines) = h + n
                                   /\ \A j \in DOMAIN lines : ~remainder_line(lines[j])

\* one displayed result with an index that leaves nothing to suggest, one
\* that leaves one to three components and one that leaves more than three
C13_Witness ==
    /\ doctor_explanation # None
    /\ \E i \in DOMAIN dietary_indices : Len(candidates(i)) = 0
    /\ \E i \in DOMAIN dietary_indices : Len(candidates(i)) \in 1..3
    /\ \E i \in DOMAIN dietary_indices :
          /\ Len(candidates(i)) > 3
          /\ \E k \in DOMAIN Val(doctor_explanation) :
                /\ Val(doctor_explanation)[k].index = dietary_indices[i].index
                /\ remainder_line(Val(doctor_explanation)[k].explanation[
                       Len(Val(doctor_explanation)[k].explanation)])

\* C14: a food whose ingredient categories are "other vegetables" and
\* "dairy", scored with no optional ingredient selected, gets from DASH the
\* matched components ["other vegetables"] and the score 1 of 8: "dairy" is
\* not "low-fat dairy", and DASH has no energy component.
C14_PizzaOnDASH ==
    ( /\ scores # None
      /\ {e.category : e \in Range(Val(food_data).primary_ingredients)}
             = {"other vegetables", "dairy"}
      /\ Val(selected_optionals) = << >> )
    => LET e == Val(scores)[index_position(dietary_indices, "DASH")]
       IN  /\ e.matched_components = <<"other vegetables">>
           /\ e.score = 1
           /\ e.max_score = 8

\* Pizza scored with none of its optional ingredients ticked
C14_Witness ==
    /\ scores # None
    /\ selected_food = Some("Pizza")
    /\ {e.category : e \in Range(Val(food_data).primary_ingredients)}
           = {"other vegetables", "dairy"}
    /\ Val(selected_optionals) = << >>
    /\ dietary_indices = dietary_indices_literal

\* the canonical categories of a scored food: those of its primary
\* ingredients and of its optional ingredients named in the selection
canonical_categories ==
    {normalize_category(e.category) : e \in Range(Val(food_data).primary_ingredients)}
    \cup
    {normalize_category(e.category) :
        e \in {o \in Range(Val(food_data).optional_ingredients) :
                  \E k \in DOMAIN Val(selected_optionals) : Val(selected_optionals)[k] = o.name}}

\* C15: for every index the matched list is the index's components, in the
\* index's order and each once, whose normalised label is a canonical
\* category of the food, together with "Energy (kcal)" where the index has
\* it; the score is the sum of the matched weights, or max_score when that
\* sum is above it.
C15_MatchedListAndCappedScore ==
    scores # None =>
        \A i \in DOMAIN dietary_indices :
            LET components == dietary_indices[i].components
                e == Val(scores)[i]
                categories == canonical_categories
                matches(k) == \/ normalize_category(components[k].component)
                                     \in categories
                              \/ components[k].component = "Energy (kcal)"
                places == {k \in DOMAIN components : matches(k)}
                total == sum_points([k \in DOMAIN e.matched_components |->
                             [points |-> weight(components, e.matched_components[k])]])
            IN  /\ e.index = dietary_indices[i].index
                /\ Len(e.matched_components) = Cardinality(places)
                /\ \A k \in DOMAIN e.matched_components :
                      /\ \E p \in places : components[p].component = e.matched_components[k]
                      /\ \A j \in DOMAIN e.matched_components :
                            j < k => \E p, q \in places :
                                        /\ p < q
                                        /\ components[p].component = e.matched_components[j]
                                        /\ components[q].component = e.matched_components[k]
                /\ e.score = IF total > e.max_score THEN e.max_score ELSE total

\* a call that matched at least 12 of AHEI-2010's 14 components and returned
\* its max_score, 11
C15_Witness ==
    /\ scores # None
    /\ \E i \in DOMAIN Val(scores) :
          /\ Val(scores)[i].index = "AHEI-2010"
          /\ Len(Val(scores)[i].matched_components) >= 12
          /\ Val(scores)[i].score = 11

\* the sub-lists of a list: the list with any set of its places taken out
sublists(list) ==
    {SelectSeq(list, LAMBDA n : n \in keep) : keep \in SUBSET Range(list)}

C17_UniqueCanonicalLabels ==
    /\ \A i \in DOMAIN dietary_indices :
          \A p, q \in DOMAIN dietary_indices[i].components :
              p # q => normalize_category(dietary_indices[i].components[p].component)
                           # normalize_category(dietary_indices[i].components[q].component)
    /\ scores # None =>
          \A i \in DOMAIN Val(scores) :
              \A category \in canonical_categories :
                  Cardinality({k \in DOMAIN Val(scores)[i].matched_components :
                                  normalize_category(Val(scores)[i].matched_components[k])
                                      = category}) <= 1

\* the texts of the percentages from 0.0% to 100.0%
PercentageTexts ==
    {format_1f([num |-> n, den |-> 10]) \o "%" : n \in 0..1000}

\* C18: in app.py every returned score is at most the index's max_score,
\* the percentage shown for it is at most 100, and "Energy (kcal)" brings
\* exactly one point to an index that has it: the score of such an index is
\* one more than the number of its other components among the food's
\* categories.
C18_AppScoreWithinMaximum ==
    scores # None =>
        \A i \in DOMAIN Val(scores) :
            LET e == Val(scores)[i]
                components == dietary_indices[i].components
                categories ==
                    {o.category : o \in Range(Val(food_data).primary_ingredients)}
                    \cup {o.category :
                             o \in {x \in Range(Val(food_data).optional_ingredients) :
                                       x.name \in Range(Val(selected_optionals))}}
                others == Cardinality({k \in DOMAIN components :
                                          /\ components[k] # "Energy (kcal)"
                                          /\ components[k] \in categories})
            IN  /\ e.score <= e.max_score
                /\ results_data # None => Val(results_data)[i].Percentage \in PercentageTexts
                /\ "Energy (kcal)" \in Range(components) => e.score = others + 1

\* C19: a search whose candidate has a confidence below 50 leaves no food
\* selected, shows no food information and scores nothing; while no food is
\* selected a rerun scores nothing; the selection changes only in a rerun
\* that searched, and a rerun that scores does so on the selected food, which
\* it leaves selected: the food of the last successful search.
C19_FailedSearchClearsSelection ==
    [][ /\ (best_match' # None /\ Val(best_match').confidence < 50)
            => /\ message' = "error"
               /\ selected_food' = None
               /\ food_data' = None
               /\ selected_optionals' = None
               /\ scores' = None
        /\ selected_food = None => scores' = None
        /\ selected_food' # selected_food => message' \in {"info", "success", "error"}
        /\ (selected_food' # None /\ message' \in {"info", "success"})
            => selected_food' = Some(Val(best_match').name)
        /\ scores' # None
            => /\ selected_food' = selected_food
               /\ food_data' = food_data
               /\ \E f \in Range(foods) :
                     /\ selected_food = Some(f.name)
                     /\ Val(scores') = calculate_dietary_scores(f.data, Val(selected_optionals'))
      ]_vars

\* a search that found a candidate of confidence 49 and left nothing selected
C19_Witness ==
    /\ best_match # None
    /\ Val(best_match).confidence = 49
    /\ message = "error"
    /\ selected_food = None
    /\ selected_optionals = None

\* C20: in every state the page reaches, selected_food is None exactly when
\* food_data is None, and otherwise selected_food is a name of the catalog
\* and food_data is that name's record; a rerun that does not search (no
\* search button, or an empty input) leaves both as they were.
C20_SessionSelectionConsistent ==
    /\ [](/\ selected_food = None <=> food_data = None
          /\ selected_food # None =>
                \E i \in DOMAIN foods :
                    /\ foods[i].name = Val(selected_food)
                    /\ foods[i].data = Val(food_data))
    /\ [][ message' = "none" => /\ selected_food' = selected_food
                                /\ food_data' = food_data ]_vars

\* a food other than the catalog's first kept selected through a rerun that
\* emptied the input and a rerun that scored with a box ticked
C20_Witness ==
    /\ selected_food # None
    /\ Val(selected_food) # foods[1].name
    /\ user_input = ""
    /\ message = "none"
    /\ checked # {}
    /\ scores # None

\* C21: the summary lists a canonical category of the food under
\* "Components to be mindful of" exactly when some index's explanation lists
\* a component that the category matches under "Areas of concern"; this for
\* every reverse-scored label, "Sodium" and "Refined grains" among them.
C21_SummaryAgreesWithExplanations ==
    (food_summary # None /\ doctor_explanation # None) =>
        \A category \in canonical_categories :
            category \in Range(Val(food_summary).concerning_categories)
            <=> \E k \in DOMAIN Val(doctor_explanation) :
                    LET i == index_position(dietary_indices,
                                            Val(doctor_explanation)[k].index)
                    IN  \E comp \in labels(dietary_indices[i].components) :
                            /\ normalize_category(comp) = category
                            /\ negative_items(Val(doctor_explanation)[k].explanation,
                                              comp) # {}

====
